---------------------------- MODULE Spec2Model ----------------------------
(***************************************************************************)
(* A model of the report-generator application: the server action          *)
(* triggerReport, the workflow generateReport and its steps, the Redis     *)
(* progress helpers, the status and progress API routes and the            *)
(* useWorkflow hook.  The durable-workflow engine the application calls    *)
(* into (start, getRun, sleep, step retry) is not part of the sources; it  *)
(* is modelled from sections 3 and 4 of the specification.                 *)
(*                                                                         *)
(* Time is counted in whole seconds and kept relative: a run carries its   *)
(* age (Date.now() - createdAt) and the seconds left of its sleep, the     *)
(* hook the seconds since its last request.  ISO timestamps written by     *)
(* the workflow (startTime, completedAt, ProgressUpdate.timestamp) carry   *)
(* no behaviour of their own and are left out of the modelled values.      *)
(***************************************************************************)
EXTENDS Integers, Sequences, FiniteSets, TLC

\* ------------------------------------------------------------- bounds --
MaxRuns     == 1      \* runs the engine creates
MaxAge      == 6      \* a run's age is counted up to this many seconds
MaxAttempts == 2      \* the engine's configured maximum attempt count
MaxPending  == 2      \* triggerReport calls of the page awaiting their result
MaxLen      == 3      \* length of a stored progress sequence (side-channel runs)

\* ---------------------------------------------------------- constants --
PROGRESS_TTL  == 3600   \* seconds
TotalSteps    == 3
BaseScore     == 85
PollMs        == 1000   \* refreshInterval while not terminal
MsPerSecond   == 1000

\* ------------------------------------------------------------- values --
AllRunNames == <<"r1", "r2", "r3", "r4">>
RunIds      == {AllRunNames[n] : n \in 1..MaxRuns}
NoRun       == ""            \* null run id, missing runId parameter
UnknownId   == "r0"          \* an id the engine never issues
NoCorr      == ""            \* undefined correlation id (falsy)
CorrIds     == {"c1"}
Undefined   == "<undefined>" \* a value that is not a string
Emails      == {"test@example.com", "not-an-email", Undefined}
ReportTypes == {"Sales", "Q1", Undefined}
NoError     == ""            \* null error
Null        == [null |-> TRUE]

Min(a, b) == IF a < b THEN a ELSE b

\* ------------------------------------------------- ReportInputSchema --
\* z.string().email(): the strings zod's e-mail pattern accepts.
IsEmail(e) == e \in {"test@example.com"}
IsString(v) == v # Undefined

\* safeParse with email declared z.string() only.
SafeParseNoEmail(email, reportType, corr) ==
  IF ~IsString(email) THEN [success |-> FALSE, message |-> "Required"]
  ELSE IF ~IsString(reportType) THEN [success |-> FALSE, message |-> "Required"]
  ELSE [success |-> TRUE,
        data |-> [email |-> email, reportType |-> reportType, runId |-> corr]]

\* safeParse: success with the parsed data, or the first issue's message
\* (issues are reported in key order: email, reportType, runId).
SafeParse(email, reportType, corr) ==
  IF ~IsString(email) THEN [success |-> FALSE, message |-> "Required"]
  ELSE IF ~IsEmail(email) THEN [success |-> FALSE, message |-> "Invalid email"]
  ELSE IF ~IsString(reportType) THEN [success |-> FALSE, message |-> "Required"]
  ELSE [success |-> TRUE,
        data |-> [email |-> email, reportType |-> reportType, runId |-> corr]]

\* ------------------------------------------------------ workflow steps --
\* initAnalysis(input)
initAnalysis(input) ==
  [reportType |-> input.reportType, email |-> input.email]

\* processData(metadata); rnd stands for Math.floor(Math.random() * 1000)
processData(metadata, rnd) ==
  [score |-> Min(100, BaseScore + (Len(metadata.reportType) % 15)),
   dataPoints |-> rnd + 500]

\* generateSummary(result): the template string, kept as its three holes
generateSummary(result) ==
  [rating |-> IF result.score >= 90 THEN "Excellent"
              ELSE IF result.score >= 75 THEN "Good" ELSE "Fair",
   dataPoints |-> result.dataPoints,
   score |-> result.score]

RandomChoices == {0, 999}

\* What an invocation of a step function may do: return, throw an ordinary
\* error, throw FatalError.
StepOutcomes == {"ok", "error", "fatal"}

\* ---------------------------------------------------- generateReport --
\* generateReport returning right after "Summary generated", without the
\* last sleep.
ProgramNoFinalSleep ==
  << [kind |-> "update", step |-> 1, text |-> "Initializing analysis..."],
     [kind |-> "step",   name |-> "initAnalysis"],
     [kind |-> "update", step |-> 1, text |-> "Analysis initialized"],
     [kind |-> "sleep",  seconds |-> 2],
     [kind |-> "update", step |-> 2, text |-> "Processing data..."],
     [kind |-> "step",   name |-> "processData"],
     [kind |-> "update", step |-> 2, text |-> "Processed data points"],
     [kind |-> "sleep",  seconds |-> 3],
     [kind |-> "update", step |-> 3, text |-> "Generating summary..."],
     [kind |-> "step",   name |-> "generateSummary"],
     [kind |-> "update", step |-> 3, text |-> "Summary generated"],
     [kind |-> "return"] >>

\* generateReport with its first sleep written "1s".
ProgramShortSleep ==
  << [kind |-> "update", step |-> 1, text |-> "Initializing analysis..."],
     [kind |-> "step",   name |-> "initAnalysis"],
     [kind |-> "update", step |-> 1, text |-> "Analysis initialized"],
     [kind |-> "sleep",  seconds |-> 1],
     [kind |-> "update", step |-> 2, text |-> "Processing data..."],
     [kind |-> "step",   name |-> "processData"],
     [kind |-> "update", step |-> 2, text |-> "Processed data points"],
     [kind |-> "sleep",  seconds |-> 3],
     [kind |-> "update", step |-> 3, text |-> "Generating summary..."],
     [kind |-> "step",   name |-> "generateSummary"],
     [kind |-> "update", step |-> 3, text |-> "Summary generated"],
     [kind |-> "sleep",  seconds |-> 1],
     [kind |-> "return"] >>

\* The workflow body as the sequence of its statements.  "update" is a call
\* of updateProgress (a push, and a storeProgressInRedis step when the
\* input carries a runId), "step" a step call, "sleep" a durable sleep.
Program ==
  << [kind |-> "update", step |-> 1, text |-> "Initializing analysis..."],
     [kind |-> "step",   name |-> "initAnalysis"],
     [kind |-> "update", step |-> 1, text |-> "Analysis initialized"],
     [kind |-> "sleep",  seconds |-> 2],
     [kind |-> "update", step |-> 2, text |-> "Processing data..."],
     [kind |-> "step",   name |-> "processData"],
     [kind |-> "update", step |-> 2, text |-> "Processed data points"],
     [kind |-> "sleep",  seconds |-> 3],
     [kind |-> "update", step |-> 3, text |-> "Generating summary..."],
     [kind |-> "step",   name |-> "generateSummary"],
     [kind |-> "update", step |-> 3, text |-> "Summary generated"],
     [kind |-> "sleep",  seconds |-> 1],
     [kind |-> "return"] >>

Sites == 1..Len(Program)

\* Done without the completions of the progress-storing steps, which return
\* no result.
DoneWithResult(log) ==
  SelectSeq(log, LAMBDA e : \/ e.type = "TimerFired"
                            \/ e.type = "StepCompleted" /\ e.result # [null |-> TRUE])

\* The events of a log that complete a call of the workflow.
Done(log) == SelectSeq(log, LAMBDA e : e.type \in {"StepCompleted", "TimerFired"})

\* Replay: the statement the workflow reaches when it is run from the top
\* against k completed calls.  An update without a runId makes no call.
RECURSIVE Walk(_, _, _)
Walk(input, i, k) ==
  IF Program[i].kind = "return" THEN i
  ELSE IF Program[i].kind = "update" /\ input.runId = NoCorr THEN Walk(input, i + 1, k)
  ELSE IF k > 0 THEN Walk(input, i + 1, k - 1)
  ELSE i

Pc(run) == Walk(run.input, 1, Len(Done(run.log)))

\* The stored result of the step called at a site.
ResultOf(log, site) ==
  LET done == SelectSeq(log, LAMBDA e : e.type = "StepCompleted" /\ e.site = site)
  IN  done[1].result

\* The ProgressUpdate passed to updateProgress at an update statement.
ProgressEntry(log, site) ==
  [step |-> Program[site].step,
   totalSteps |-> TotalSteps,
   message |-> [text |-> Program[site].text,
                n |-> IF site = 7 THEN ResultOf(log, 6).dataPoints ELSE 0]]

UpdateSites == {i \in Sites : Program[i].kind = "update"}

RECURSIVE EntriesFrom(_, _)
EntriesFrom(log, i) ==
  IF i > Len(Program) THEN << >>
  ELSE IF i \in UpdateSites THEN << ProgressEntry(log, i) >> \o EntriesFrom(log, i + 1)
  ELSE EntriesFrom(log, i + 1)

\* The value generateReport returns.
ReturnValue(log) ==
  [metadata |-> ResultOf(log, 2),
   processing |-> ResultOf(log, 6),
   summary |-> ResultOf(log, 10),
   progressUpdates |-> EntriesFrom(log, 1)]

\* The result a step function computes at a step statement.
StepResult(log, input, site, rnd) ==
  CASE Program[site].name = "initAnalysis"    -> initAnalysis(input)
    [] Program[site].name = "processData"     -> processData(ResultOf(log, 2), rnd)
    [] Program[site].name = "generateSummary" -> generateSummary(ResultOf(log, 6))

\* -------------------------------------------------------------- state --
VARIABLES
  runs,           \* the engine's runs, by run id
  advancing,      \* the engine's workers that are advancing a run, by run id
  progressStore,  \* Redis: workflow:progress:{token} -> ProgressData[]
  mapping,        \* Redis: workflow:mapping:{runId} -> correlation id
  progressTtl,    \* Redis: seconds a progress key has left to live, 0 for no key
  mappingTtl,     \* Redis: seconds a mapping key has left to live, 0 for no key
  inflight,       \* setProgress: per call in progress, its arguments and the
                  \* array it has read (existing)
  currentRunId,   \* useWorkflow: useState currentRunId
  startError,     \* useWorkflow: useState startError
  data,           \* useWorkflow: SWR data of the current key
  swrError,       \* useWorkflow: SWR error of the current key
  fetched,        \* SWR: a request has been issued for the current key
  sinceFetch,     \* SWR: seconds since the last request of the current key
  pendingStarts,  \* results of triggerReport on their way back to the page
  lastResp,       \* the response of GET /api/status given in the step just taken
  reported,       \* per run id, the last status report the API gave for it
  lastTrigger,    \* the call of triggerReport made in the step just taken
  lastGet,        \* the call of getProgress made in the step just taken
  lastCall,       \* the call of a side-channel operation made in the step just
                  \* taken: whether Redis worked, what the call gave back and
                  \* what was stored before it
  recorded        \* per token, the entries setProgress has stored under the
                  \* token's key since the key was last created, in call order

vars == << runs, advancing, progressStore, mapping, progressTtl, mappingTtl, inflight, currentRunId, startError, data,
           swrError, fetched, sinceFetch, pendingStarts, lastResp, reported,
           lastTrigger, lastGet, lastCall, recorded >>

engineVars == << runs, advancing >>
redisVars  == << progressStore, mapping, progressTtl, mappingTtl, inflight, recorded >>
hookVars   == << currentRunId, startError, data, swrError, fetched, sinceFetch,
                 pendingStarts >>

\* A step that is no request: nothing is observed, the reports stand.
Quiet ==
  /\ lastResp' = Null
  /\ lastTrigger' = Null
  /\ lastGet' = Null
  /\ lastCall' = Null
  /\ UNCHANGED << reported, advancing >>

Tokens == CorrIds \cup RunIds

\* The engine's workers.
Workers == {"w1", "w2"}

\* Calls of setProgress that may be in progress at once.
CallIds == {"s1", "s2"}

NoRunRecord ==
  [status |-> "none", input |-> Null, log |-> << >>, age |-> 0,
   wakeIn |-> 0, output |-> Null, reason |-> NoError]

Init ==
  /\ runs = [r \in RunIds |-> NoRunRecord]
  /\ advancing = [r \in RunIds |-> {}]
  /\ progressStore = [t \in Tokens |-> << >>]
  /\ mapping = [r \in RunIds |-> NoCorr]
  /\ progressTtl = [t \in Tokens |-> 0]
  /\ mappingTtl = [r \in RunIds |-> 0]
  /\ inflight = [c \in CallIds |-> Null]
  /\ currentRunId = NoRun
  /\ startError = NoError
  /\ data = Null
  /\ swrError = NoError
  /\ fetched = FALSE
  /\ sinceFetch = 0
  /\ pendingStarts = << >>
  /\ lastResp = Null
  /\ reported = [r \in RunIds |-> Null]
  /\ lastTrigger = Null
  /\ lastGet = Null
  /\ lastCall = Null
  /\ recorded = [t \in Tokens |-> << >>]

\* ------------------------------------------------------ Redis helpers --
\* Push putting the new entry first (unshift).
PushFront(existing, progress) == << progress >> \o existing

\* setProgress(runId, progress): read the array, push, write it back.
Push(existing, progress) == Append(existing, progress)

\* setProgress losing the stored array when Redis fails.
SetProgressLosing(store, token, progress, redisOk) ==
  IF redisOk THEN [store EXCEPT ![token] = Push(store[token], progress)]
  ELSE [store EXCEPT ![token] = << >>]

SetProgress(store, token, progress, redisOk) ==
  IF redisOk THEN [store EXCEPT ![token] = Push(store[token], progress)]
  ELSE store

\* setex keeping the time-to-live of a key that exists.
SetexTtlKeep(ttl, key, seconds, redisOk) ==
  IF redisOk /\ ttl[key] = 0 THEN [ttl EXCEPT ![key] = seconds] ELSE ttl

\* redis.setex(key, seconds, value): the time-to-live the write leaves.
SetexTtl(ttl, key, seconds, redisOk) ==
  IF redisOk THEN [ttl EXCEPT ![key] = seconds] ELSE ttl

SetProgressTtl(ttl, token, redisOk) == SetexTtl(ttl, token, PROGRESS_TTL, redisOk)

\* getProgress(runId)
GetProgress(store, token, redisOk) ==
  IF redisOk THEN store[token] ELSE << >>

\* clearProgress deleting every progress key.
ClearProgressAll(store, token, redisOk) ==
  IF redisOk THEN [t \in DOMAIN store |-> << >>] ELSE store

\* clearProgress(runId)
ClearProgress(store, token, redisOk) ==
  IF redisOk THEN [store EXCEPT ![token] = << >>] ELSE store

ClearProgressTtl(ttl, token, redisOk) ==
  IF redisOk THEN [ttl EXCEPT ![token] = 0] ELSE ttl

\* mapIds(correlationId, actualRunId)
MapIds(map, corr, runId, redisOk) ==
  IF redisOk THEN [map EXCEPT ![runId] = corr] ELSE map

MapIdsTtl(ttl, runId, redisOk) == SetexTtl(ttl, runId, PROGRESS_TTL, redisOk)

\* getCorrelationId(runId)
GetCorrelationId(map, runId, redisOk) ==
  IF redisOk THEN map[runId] ELSE NoCorr

\* POST /api/progress: the response, and the store it leaves.
ProgressPOSTStore(store, token, progress, redisOk) ==
  IF token = NoCorr \/ progress = Null THEN store
  ELSE SetProgress(store, token, progress, redisOk)

ProgressPOSTTtl(ttl, token, progress, redisOk) ==
  IF token = NoCorr \/ progress = Null THEN ttl
  ELSE SetProgressTtl(ttl, token, redisOk)

ProgressPOSTResponse(token, progress) ==
  IF token = NoCorr \/ progress = Null
  THEN [http |-> 400, body |-> [error |-> "runId and progress are required"]]
  ELSE [http |-> 200, body |-> [success |-> TRUE]]

\* ------------------------------------------------------------- engine --
Live(r)     == runs[r].status \in {"pending", "running"}
Created(r)  == runs[r].status # "none"
Terminal(r) == runs[r].status \in {"completed", "failed"}

Stmt(r) == Program[Pc(runs[r])]

Attempts(log, site) ==
  Len(SelectSeq(log, LAMBDA e : e.type = "StepFailed" /\ e.site = site))

\* start(generateReport, [input]): a new Pending run under a fresh id.
FreeIds == {n \in 1..MaxRuns : runs[AllRunNames[n]].status = "none"}
NewRunId == AllRunNames[CHOOSE n \in FreeIds : \A m \in FreeIds : n <= m]

StartRun(rs, id, input) ==
  [rs EXCEPT ![id] = [status |-> "pending", input |-> input, log |-> << >>,
                      age |-> 0, wakeIn |-> 0, output |-> Null,
                      reason |-> NoError]]

\* One second passes.
Tick ==
  /\ runs' = [r \in RunIds |->
       IF runs[r].status = "none" THEN runs[r]
       ELSE [runs[r] EXCEPT !.age = Min(@ + 1, MaxAge),
                            !.wakeIn = IF @ > 0 THEN @ - 1 ELSE 0]]
  /\ sinceFetch' = IF fetched THEN Min(sinceFetch + 1, PollMs \div MsPerSecond)
                   ELSE sinceFetch
  /\ Quiet
  /\ UNCHANGED << redisVars, currentRunId, startError, data, swrError, fetched,
                  pendingStarts >>

\* ExecStep retrying a step that threw FatalError like any other.
ExecStepRetryFatal(r, outcome, rnd) ==
  /\ Live(r)
  /\ Stmt(r).kind = "step"
  /\ LET run  == runs[r]
         site == Pc(run)
         att  == Attempts(run.log, site) + 1
     IN   /\ (Program[site].name # "processData") => rnd = 0
          /\ runs' = [runs EXCEPT ![r] =
               CASE outcome = "ok" ->
                      [run EXCEPT !.status = "running",
                                  !.log = Append(@, [type |-> "StepCompleted", site |-> site,
                                                     result |-> StepResult(run.log, run.input, site, rnd)])]
                 [] outcome \in {"error", "fatal"} /\ att < MaxAttempts ->
                      [run EXCEPT !.status = "running",
                                  !.log = Append(@, [type |-> "StepFailed", site |-> site,
                                                     attempt |-> att,
                                                     error |-> IF outcome = "fatal" THEN "FatalError"
                                                               ELSE "Error",
                                                     fatal |-> FALSE])]
                 [] OTHER ->
                      [run EXCEPT !.status = "failed",
                                  !.reason = IF outcome = "fatal" THEN "FatalError"
                                             ELSE "RetriesExhausted",
                                  !.log = @ \o << [type |-> "StepFailed", site |-> site,
                                                   attempt |-> att,
                                                   error |-> IF outcome = "fatal" THEN "FatalError"
                                                             ELSE "Error",
                                                   fatal |-> TRUE],
                                                  [type |-> "RunFailed"] >>]]
  /\ Quiet
  /\ UNCHANGED << redisVars, hookVars >>

\* Step Executor: one invocation of the step function at the current site.
ExecStep(r, outcome, rnd) ==
  /\ Live(r)
  /\ Stmt(r).kind = "step"
  /\ LET run  == runs[r]
         site == Pc(run)
         att  == Attempts(run.log, site) + 1
     IN   /\ (Program[site].name # "processData") => rnd = 0
          /\ runs' = [runs EXCEPT ![r] =
               CASE outcome = "ok" ->
                      [run EXCEPT !.status = "running",
                                  !.log = Append(@, [type |-> "StepCompleted", site |-> site,
                                                     result |-> StepResult(run.log, run.input, site, rnd)])]
                 [] outcome = "error" /\ att < MaxAttempts ->
                      [run EXCEPT !.status = "running",
                                  !.log = Append(@, [type |-> "StepFailed", site |-> site,
                                                     attempt |-> att, error |-> "Error",
                                                     fatal |-> FALSE])]
                 [] OTHER ->
                      [run EXCEPT !.status = "failed",
                                  !.reason = IF outcome = "fatal" THEN "FatalError"
                                             ELSE "RetriesExhausted",
                                  !.log = @ \o << [type |-> "StepFailed", site |-> site,
                                                   attempt |-> att,
                                                   error |-> IF outcome = "fatal" THEN "FatalError"
                                                             ELSE "Error",
                                                   fatal |-> TRUE],
                                                  [type |-> "RunFailed"] >>]]
  /\ Quiet
  /\ UNCHANGED << redisVars, hookVars >>

\* storeProgressInRedis without its try/catch: a request that does not reach
\* the endpoint throws out of the step, which fails the run.
ExecStoreProgressThrows(r, delivered, redisOk) ==
  /\ Live(r)
  /\ Stmt(r).kind = "update"
  /\ LET run  == runs[r]
         site == Pc(run)
     IN   /\ (~delivered) => redisOk
          /\ progressStore' =
               IF delivered
               THEN ProgressPOSTStore(progressStore, run.input.runId,
                                      ProgressEntry(run.log, site), redisOk)
               ELSE progressStore
          /\ progressTtl' =
               IF delivered
               THEN ProgressPOSTTtl(progressTtl, run.input.runId,
                                    ProgressEntry(run.log, site), redisOk)
               ELSE progressTtl
          /\ recorded' =
               IF delivered /\ redisOk
               THEN [recorded EXCEPT ![run.input.runId] =
                       Append(@, ProgressEntry(run.log, site))]
               ELSE recorded
          /\ runs' = [runs EXCEPT ![r] =
               IF delivered
               THEN [run EXCEPT !.status = "running",
                                !.log = Append(@, [type |-> "StepCompleted", site |-> site,
                                                   result |-> Null])]
               ELSE [run EXCEPT !.status = "failed",
                                !.reason = "FatalError",
                                !.log = @ \o << [type |-> "StepFailed", site |-> site,
                                                 attempt |-> 1, error |-> "FatalError",
                                                 fatal |-> TRUE],
                                                [type |-> "RunFailed"] >>]]
  /\ Quiet
  /\ UNCHANGED << mapping, mappingTtl, inflight, hookVars >>

\* updateProgress with a runId: the storeProgressInRedis step posts the entry
\* to /api/progress; the step swallows every failure and completes.
ExecStoreProgress(r, delivered, redisOk) ==
  /\ Live(r)
  /\ Stmt(r).kind = "update"
  /\ LET run  == runs[r]
         site == Pc(run)
     IN   /\ (~delivered) => redisOk
          /\ progressStore' =
               IF delivered
               THEN ProgressPOSTStore(progressStore, run.input.runId,
                                      ProgressEntry(run.log, site), redisOk)
               ELSE progressStore
          /\ progressTtl' =
               IF delivered
               THEN ProgressPOSTTtl(progressTtl, run.input.runId,
                                    ProgressEntry(run.log, site), redisOk)
               ELSE progressTtl
          /\ recorded' =
               IF delivered /\ redisOk
               THEN [recorded EXCEPT ![run.input.runId] =
                       Append(@, ProgressEntry(run.log, site))]
               ELSE recorded
          /\ runs' = [runs EXCEPT ![r] =
               [run EXCEPT !.status = "running",
                           !.log = Append(@, [type |-> "StepCompleted", site |-> site,
                                              result |-> Null])]]
  /\ Quiet
  /\ UNCHANGED << mapping, mappingTtl, inflight, hookVars >>

\* Timer Scheduler: sleep(d) schedules the timer and suspends the run.
ExecSleep(r) ==
  /\ Live(r)
  /\ Stmt(r).kind = "sleep"
  /\ runs' = [runs EXCEPT ![r] =
       [@ EXCEPT !.status = "sleeping",
                 !.wakeIn = Stmt(r).seconds,
                 !.log = Append(@, [type |-> "TimerScheduled", site |-> Pc(runs[r])])]]
  /\ Quiet
  /\ UNCHANGED << redisVars, hookVars >>

\* The reaper wakes a run whose deadline has elapsed.
TimerDue(run) == run.wakeIn = 0

TimerFire(r) ==
  /\ runs[r].status = "sleeping"
  /\ TimerDue(runs[r])
  /\ runs' = [runs EXCEPT ![r] =
       [@ EXCEPT !.status = "running",
                 !.log = Append(@, [type |-> "TimerFired", site |-> Pc(runs[r])])]]
  /\ Quiet
  /\ UNCHANGED << redisVars, hookVars >>

\* The workflow function returns: RunCompleted(output).
ExecReturn(r) ==
  /\ Live(r)
  /\ Stmt(r).kind = "return"
  /\ runs' = [runs EXCEPT ![r] =
       [@ EXCEPT !.status = "completed",
                 !.output = ReturnValue(runs[r].log),
                 !.log = Append(@, [type |-> "RunCompleted"])]]
  /\ Quiet
  /\ UNCHANGED << redisVars, hookVars >>

\* ---------------------------------------------------- GET /api/status --
\* getRun(runId): the run, or no run for an identifier the engine does not know.
GetRun(q) == IF q \in RunIds /\ runs[q].status # "none" THEN runs[q] ELSE Null

\* MapStatus passing every other engine status through, capitalised.
MapStatusPassThrough(runStatus) ==
  IF runStatus = "completed" THEN "Completed"
  ELSE IF runStatus = "failed" THEN "Failed"
  ELSE IF runStatus = "sleeping" THEN "Sleeping"
  ELSE IF runStatus = "pending" THEN "Pending"
  ELSE "Running"

\* MapStatus without its "failed" branch.
MapStatusNoFailed(runStatus) ==
  IF runStatus = "completed" THEN "Completed" ELSE "Running"

\* The simplified status.
MapStatus(runStatus) ==
  IF runStatus = "completed" THEN "Completed"
  ELSE IF runStatus = "failed" THEN "Failed"
  ELSE "Running"

\* OutputOf with the comparison never matching: output stays null.
OutputOfNever(run) == Null

\* output: the return value when completed, null otherwise.
OutputOf(run) == IF run.status = "completed" THEN run.output ELSE Null

\* EstimatedStep starting over after five seconds.
EstimatedStepWraps(elapsedSec) ==
  IF elapsedSec < 2 THEN 1 ELSE IF elapsedSec < 5 THEN 2 ELSE 1

\* The step estimated from the seconds elapsed since the run was created.
EstimatedStep(elapsedSec) ==
  IF elapsedSec < 2 THEN 1 ELSE IF elapsedSec < 5 THEN 2 ELSE 3

EstimatedMessage(elapsedSec) ==
  IF elapsedSec < 2 THEN "Initializing analysis..."
  ELSE IF elapsedSec < 5 THEN "Processing data..."
  ELSE "Generating summary..."

ProgressUpdatesOf(run) ==
  IF run.status = "completed"
  THEN IF OutputOf(run) # Null /\ "progressUpdates" \in DOMAIN OutputOf(run)
       THEN OutputOf(run).progressUpdates ELSE << >>
  ELSE IF run.status = "running"
  THEN << [step |-> EstimatedStep(run.age),
           totalSteps |-> TotalSteps,
           message |-> [text |-> EstimatedMessage(run.age), n |-> 0]] >>
  ELSE << >>

\* StatusResponse without the "if (!run)" check: reading the status of no
\* run throws, and the catch answers 500.
StatusResponseNoNullCheck(q, engineOk) ==
  IF q = NoRun
  THEN [http |-> 400, body |-> [error |-> "runId parameter is required"]]
  ELSE IF ~engineOk \/ GetRun(q) = Null
  THEN [http |-> 500, body |-> [error |-> "Failed to fetch run status"]]
  ELSE LET run == GetRun(q)
           progressUpdates == ProgressUpdatesOf(run)
       IN [http |-> 200,
           body |-> [status |-> MapStatus(run.status),
                     output |-> OutputOf(run),
                     progress |-> IF Len(progressUpdates) > 0
                                  THEN progressUpdates[Len(progressUpdates)] ELSE Null,
                     progressHistory |-> progressUpdates]]

\* The response for query parameter q; engineOk is false when the engine throws.
StatusResponse(q, engineOk) ==
  IF q = NoRun
  THEN [http |-> 400, body |-> [error |-> "runId parameter is required"]]
  ELSE IF ~engineOk
  THEN [http |-> 500, body |-> [error |-> "Failed to fetch run status"]]
  ELSE IF GetRun(q) = Null
  THEN [http |-> 404, body |-> [error |-> "Run not found"]]
  ELSE LET run == GetRun(q)
           progressUpdates == ProgressUpdatesOf(run)
       IN [http |-> 200,
           body |-> [status |-> MapStatus(run.status),
                     output |-> OutputOf(run),
                     progress |-> IF Len(progressUpdates) > 0
                                  THEN progressUpdates[Len(progressUpdates)] ELSE Null,
                     progressHistory |-> progressUpdates]]

\* What a request leaves behind for the properties: the response with the
\* query, who asked, and the engine state it read.
Observed(q, engineOk, by) ==
  [q |-> q, by |-> by, engineOk |-> engineOk,
   runStatus |-> IF engineOk /\ GetRun(q) # Null THEN GetRun(q).status ELSE "none",
   http |-> StatusResponse(q, engineOk).http,
   body |-> StatusResponse(q, engineOk).body]

Report(q, engineOk) ==
  IF StatusResponse(q, engineOk).http = 200
  THEN [reported EXCEPT ![q] = [status |-> StatusResponse(q, engineOk).body.status,
                                output |-> StatusResponse(q, engineOk).body.output]]
  ELSE reported

QueryIds == RunIds \cup {NoRun, UnknownId}

\* A request to the status endpoint by any client.
ApiStatus(q) ==
  \E engineOk \in BOOLEAN :
    /\ lastResp' = Observed(q, engineOk, "client")
    /\ reported' = Report(q, engineOk)
    /\ lastTrigger' = Null
    /\ lastGet' = Null
    /\ lastCall' = Null
    /\ UNCHANGED << engineVars, redisVars, hookVars >>

\* ------------------------------------------------------ triggerReport --
\* The result returned, the runs and the id mapping the call leaves, and
\* whether start was invoked.
TriggerReport(email, reportType, corr, engineOk, redisOk) ==
  LET validationResult == SafeParse(email, reportType, corr)
  IN IF ~validationResult.success
     THEN [result |-> [error |-> validationResult.message, runId |-> NoRun],
           runs |-> runs, mapping |-> mapping, mappingTtl |-> mappingTtl,
           started |-> FALSE]
     ELSE IF ~engineOk
     THEN [result |-> [error |-> "Failed to start workflow", runId |-> NoRun],
           runs |-> runs, mapping |-> mapping, mappingTtl |-> mappingTtl,
           started |-> TRUE]
     ELSE [result |-> [runId |-> NewRunId, correlationId |-> corr, error |-> NoError],
           runs |-> StartRun(runs, NewRunId, validationResult.data),
           mapping |-> MapIds(mapping, corr, NewRunId, redisOk),
           mappingTtl |-> MapIdsTtl(mappingTtl, NewRunId, redisOk),
           started |-> TRUE]

CanTrigger(email, reportType, corr, engineOk) ==
  (SafeParse(email, reportType, corr).success /\ engineOk) => FreeIds # {}

Triggered(email, reportType, corr, engineOk, redisOk) ==
  [email |-> email, reportType |-> reportType, corr |-> corr,
   result |-> TriggerReport(email, reportType, corr, engineOk, redisOk).result,
   started |-> TriggerReport(email, reportType, corr, engineOk, redisOk).started]

\* What is stored in Redis.
Stored ==
  [progress |-> progressStore, progressTtl |-> progressTtl,
   mapping |-> mapping, mappingTtl |-> mappingTtl]

\* triggerReport's call of mapIds, made once start has returned a run.
MapIdsCall(email, reportType, corr, engineOk, redisOk) ==
  IF SafeParse(email, reportType, corr).success /\ engineOk
  THEN [op |-> "mapIds", key |-> NewRunId, redisOk |-> redisOk, before |-> Stored,
        returned |-> TriggerReport(email, reportType, corr, engineOk, redisOk).result]
  ELSE Null

\* A call of the server action by a client that passes a correlation id.
ClientTrigger(email, reportType, corr) ==
  \E engineOk \in BOOLEAN, redisOk \in BOOLEAN :
    /\ CanTrigger(email, reportType, corr, engineOk)
    /\ (~engineOk) => redisOk
    /\ runs' = TriggerReport(email, reportType, corr, engineOk, redisOk).runs
    /\ mapping' = TriggerReport(email, reportType, corr, engineOk, redisOk).mapping
    /\ mappingTtl' = TriggerReport(email, reportType, corr, engineOk, redisOk).mappingTtl
    /\ lastTrigger' = Triggered(email, reportType, corr, engineOk, redisOk)
    /\ lastResp' = Null
    /\ lastGet' = Null
    /\ lastCall' = MapIdsCall(email, reportType, corr, engineOk, redisOk)
    /\ UNCHANGED << advancing, progressStore, progressTtl, inflight, recorded, hookVars,
                    reported >>

\* -------------------------------------------------------- useWorkflow --
DataStatus(d) == IF "status" \in DOMAIN d THEN d.status ELSE ""

\* refreshInterval that never returns 0.
RefreshIntervalAlways(d) == PollMs

\* refreshInterval(data), in milliseconds
RefreshInterval(d) ==
  IF DataStatus(d) = "Completed" \/ DataStatus(d) = "Failed" THEN 0 ELSE PollMs

HookError ==
  IF startError # NoError THEN startError
  ELSE IF swrError # NoError THEN swrError
  ELSE IF "error" \in DOMAIN data THEN data.error
  ELSE NoError

\* HookStatus turning "Failed" on any error of the hook.
HookStatusFromError ==
  IF HookError # NoError THEN "Failed"
  ELSE IF DataStatus(data) # "" THEN DataStatus(data)
  ELSE IF currentRunId # NoRun THEN "Running" ELSE "Idle"

\* HookStatus without the "Running" default.
HookStatusNoDefault ==
  IF DataStatus(data) # "" THEN DataStatus(data) ELSE "Idle"

HookStatus ==
  IF DataStatus(data) # "" THEN DataStatus(data)
  ELSE IF currentRunId # NoRun THEN "Running" ELSE "Idle"

\* isRunning that never holds.
IsRunningNever == FALSE

IsRunning == HookStatus = "Running"

\* page.tsx: disabled={isRunning} on both inputs and the submit button.
FormDisabled == IsRunning

HookResult == IF "output" \in DOMAIN data THEN data.output ELSE Null

\* The form is submitted: start clears the start error and calls
\* triggerReport(email, reportType); without a correlation id no mapping key
\* is written.
HookSubmit(email, reportType) ==
  /\ ~IsRunning
  /\ Len(pendingStarts) < MaxPending
  /\ \E engineOk \in BOOLEAN :
       /\ CanTrigger(email, reportType, NoCorr, engineOk)
       /\ runs' = TriggerReport(email, reportType, NoCorr, engineOk, TRUE).runs
       /\ mapping' = TriggerReport(email, reportType, NoCorr, engineOk, TRUE).mapping
       /\ lastTrigger' = Triggered(email, reportType, NoCorr, engineOk, TRUE)
       /\ pendingStarts' =
            Append(pendingStarts, TriggerReport(email, reportType, NoCorr, engineOk, TRUE).result)
  /\ startError' = NoError
  /\ lastResp' = Null
  /\ lastGet' = Null
  /\ lastCall' = Null
  /\ UNCHANGED << advancing, progressStore, progressTtl, mappingTtl, inflight, recorded, currentRunId,
                  data, swrError, fetched, sinceFetch, reported >>

\* start's continuation dropping the run id when the start has failed.
HookStartReturnDropsRun ==
  /\ pendingStarts # << >>
  /\ pendingStarts' = Tail(pendingStarts)
  /\ \E thrown \in BOOLEAN :
       LET result == Head(pendingStarts)
       IN IF thrown
          THEN /\ startError' = "Failed to start workflow"
               /\ currentRunId' = NoRun
               /\ data' = Null
               /\ UNCHANGED << swrError, fetched, sinceFetch >>
          ELSE IF result.error # NoError
          THEN /\ startError' = result.error
               /\ currentRunId' = NoRun
               /\ data' = Null
               /\ UNCHANGED << swrError, fetched, sinceFetch >>
          ELSE /\ currentRunId' = result.runId
               /\ data' = Null
               /\ swrError' = NoError
               /\ fetched' = FALSE
               /\ UNCHANGED << startError, sinceFetch >>
  /\ Quiet
  /\ UNCHANGED << engineVars, redisVars >>

\* triggerReport's result arrives (or the call throws): start's continuation.
HookStartReturn ==
  /\ pendingStarts # << >>
  /\ pendingStarts' = Tail(pendingStarts)
  /\ \E thrown \in BOOLEAN :
       LET result == Head(pendingStarts)
       IN IF thrown
          THEN /\ startError' = "Failed to start workflow"
               /\ UNCHANGED << currentRunId, data, swrError, fetched, sinceFetch >>
          ELSE IF result.error # NoError
          THEN /\ startError' = result.error
               /\ UNCHANGED << currentRunId, data, swrError, fetched, sinceFetch >>
          ELSE /\ currentRunId' = result.runId
               /\ data' = Null
               /\ swrError' = NoError
               /\ fetched' = FALSE
               /\ UNCHANGED << startError, sinceFetch >>
  /\ Quiet
  /\ UNCHANGED << engineVars, redisVars >>

\* SWR fetching a key once and never again.
PollDueOnce ==
  /\ currentRunId # NoRun
  /\ ~fetched

\* SWR issues a request for the current key: at once for a new key, then
\* refreshInterval(data) after the previous one unless that is 0.
PollDue ==
  /\ currentRunId # NoRun
  /\ \/ ~fetched
     \/ /\ RefreshInterval(data) > 0
        /\ sinceFetch * MsPerSecond >= RefreshInterval(data)

HookPoll ==
  /\ PollDue
  /\ \E engineOk \in BOOLEAN :
       LET res == StatusResponse(currentRunId, engineOk)
       IN /\ IF res.http # 200
             THEN /\ swrError' = "Failed to fetch workflow status"
                  /\ data' = data
             ELSE /\ swrError' = NoError
                  /\ data' = res.body
          /\ lastResp' = Observed(currentRunId, engineOk, "hook")
          /\ reported' = Report(currentRunId, engineOk)
  /\ fetched' = TRUE
  /\ sinceFetch' = 0
  /\ lastTrigger' = Null
  /\ lastGet' = Null
  /\ lastCall' = Null
  /\ UNCHANGED << engineVars, redisVars, currentRunId, startError, pendingStarts >>

\* ------------------------------------------------------ specification --
Next ==
  \/ Tick
  \/ \E r \in RunIds, outcome \in StepOutcomes, rnd \in RandomChoices : ExecStep(r, outcome, rnd)
  \/ \E r \in RunIds : ExecStoreProgress(r, TRUE, TRUE)
  \/ \E r \in RunIds : ExecSleep(r)
  \/ \E r \in RunIds : TimerFire(r)
  \/ \E r \in RunIds : ExecReturn(r)
  \/ \E q \in QueryIds : ApiStatus(q)
  \/ \E e \in Emails, t \in ReportTypes, c \in CorrIds : ClientTrigger(e, t, c)

Spec == Init /\ [][Next]_vars

\* The page: the form, the hook and the runs it starts.
PageEmails      == Emails \ {Undefined}
PageReportTypes == ReportTypes \ {Undefined}

NextPage ==
  \/ Tick
  \/ \E r \in RunIds, outcome \in StepOutcomes, rnd \in RandomChoices : ExecStep(r, outcome, rnd)
  \/ \E r \in RunIds : ExecSleep(r)
  \/ \E r \in RunIds : TimerFire(r)
  \/ \E r \in RunIds : ExecReturn(r)
  \/ \E e \in PageEmails, t \in PageReportTypes : HookSubmit(e, t)
  \/ HookStartReturn
  \/ HookPoll
  \/ \E q \in RunIds : ApiStatus(q)

SpecPage == Init /\ [][NextPage]_vars

\* The page followed to the end of its run: time passes, the engine keeps
\* advancing a run that can advance, a result of triggerReport on its way
\* arrives, and of the status requests that keep coming due one succeeds
\* in the end.
PageEngine ==
  \/ \E r \in RunIds, outcome \in StepOutcomes, rnd \in RandomChoices : ExecStep(r, outcome, rnd)
  \/ \E r \in RunIds : ExecSleep(r)
  \/ \E r \in RunIds : TimerFire(r)
  \/ \E r \in RunIds : ExecReturn(r)

HookPollOk == HookPoll /\ swrError' = NoError

NextTrack ==
  \/ Tick
  \/ PageEngine
  \/ \E e \in PageEmails, t \in PageReportTypes : HookSubmit(e, t)
  \/ HookStartReturn
  \/ HookPoll

SpecTrack ==
  /\ Init /\ [][NextTrack]_vars
  /\ WF_vars(Tick)
  /\ WF_vars(PageEngine)
  /\ WF_vars(HookStartReturn)
  /\ SF_vars(HookPollOk)

\* Submission alone: the server action called by the page and by other
\* clients, and the hook's handling of its result.
NextSubmit ==
  \/ \E e \in Emails, t \in ReportTypes, c \in CorrIds : ClientTrigger(e, t, c)
  \/ \E e \in PageEmails, t \in PageReportTypes : HookSubmit(e, t)
  \/ HookStartReturn

SpecSubmit == Init /\ [][NextSubmit]_vars

\* The side-channel alone, its storage working: sequential calls of the
\* progress endpoint and of getProgress.
Entries ==
  { [step |-> 1, totalSteps |-> TotalSteps, message |-> [text |-> "Initializing analysis...", n |-> 0]],
    [step |-> 2, totalSteps |-> TotalSteps, message |-> [text |-> "Processing data...", n |-> 0]] }

PostProgress(token, progress) ==
  /\ Len(progressStore[IF token = NoCorr THEN "c1" ELSE token]) < MaxLen
  /\ progressStore' = ProgressPOSTStore(progressStore, token, progress, TRUE)
  /\ progressTtl' = ProgressPOSTTtl(progressTtl, token, progress, TRUE)
  /\ recorded' = IF ProgressPOSTResponse(token, progress).http = 200
                 THEN [recorded EXCEPT ![token] = Append(@, progress)]
                 ELSE recorded
  /\ lastResp' = Null
  /\ lastTrigger' = Null
  /\ lastGet' = Null
  /\ lastCall' = Null
  /\ UNCHANGED << engineVars, mapping, mappingTtl, inflight, hookVars, reported >>

CallGetProgress(token) ==
  /\ lastGet' = [token |-> token, result |-> GetProgress(progressStore, token, TRUE)]
  /\ lastCall' = Null
  /\ lastResp' = Null
  /\ lastTrigger' = Null
  /\ UNCHANGED << engineVars, redisVars, hookVars, reported >>

NextProgress ==
  \/ \E t \in Tokens \cup {NoCorr}, e \in Entries \cup {Null} : PostProgress(t, e)
  \/ \E t \in Tokens : CallGetProgress(t)

SpecProgress == Init /\ [][NextProgress]_vars

\* The lifetime of the keys.  Redis deletes a key when its time-to-live has
\* run out; d seconds pass for every key at once.  (The runs of the other
\* specifications last seconds, the keys an hour: there the keys do not
\* run out.)
Max(a, b) == IF a > b THEN a ELSE b

Durations == {PROGRESS_TTL \div 2, PROGRESS_TTL - 1, PROGRESS_TTL}

RedisElapse(d) ==
  /\ \E t \in Tokens : progressTtl[t] > 0
     \/ \E r \in RunIds : mappingTtl[r] > 0
  /\ progressTtl' = [t \in Tokens |-> Max(progressTtl[t] - d, 0)]
  /\ progressStore' = [t \in Tokens |->
       IF progressTtl[t] - d <= 0 THEN << >> ELSE progressStore[t]]
  /\ mappingTtl' = [r \in RunIds |-> Max(mappingTtl[r] - d, 0)]
  /\ mapping' = [r \in RunIds |->
       IF mappingTtl[r] - d <= 0 THEN NoCorr ELSE mapping[r]]
  /\ recorded' = [t \in Tokens |->
       IF progressTtl[t] > 0 /\ progressTtl[t] - d <= 0 THEN << >> ELSE recorded[t]]
  /\ Quiet
  /\ UNCHANGED << engineVars, inflight, hookVars >>

NextTtl ==
  \/ \E t \in Tokens, e \in Entries : PostProgress(t, e)
  \/ \E t \in Tokens : CallGetProgress(t)
  \/ \E e \in PageEmails, t \in PageReportTypes, c \in CorrIds : ClientTrigger(e, t, c)
  \/ \E d \in Durations : RedisElapse(d)

SpecTtl == Init /\ [][NextTtl]_vars

\* clearProgress(token), called at any moment.
CallClearProgress(token) ==
  /\ progressStore[token] # << >>
  /\ progressStore' = ClearProgress(progressStore, token, TRUE)
  /\ progressTtl' = ClearProgressTtl(progressTtl, token, TRUE)
  /\ recorded' = [recorded EXCEPT ![token] = << >>]
  /\ Quiet
  /\ UNCHANGED << engineVars, mapping, mappingTtl, inflight, hookVars >>

\* The side-channel with a storage that may fail: the progress endpoint, the
\* operations of lib/redis.ts and the server action, called at any moment.
StoragePost(token, progress, redisOk) ==
  /\ Len(progressStore[IF token = NoCorr THEN "c1" ELSE token]) < MaxLen
  /\ progressStore' = ProgressPOSTStore(progressStore, token, progress, redisOk)
  /\ progressTtl' = ProgressPOSTTtl(progressTtl, token, progress, redisOk)
  /\ recorded' = IF ProgressPOSTResponse(token, progress).http = 200 /\ redisOk
                 THEN [recorded EXCEPT ![token] = Append(@, progress)]
                 ELSE recorded
  /\ lastCall' = [op |-> "POST", key |-> token, progress |-> progress,
                  redisOk |-> redisOk, before |-> Stored,
                  returned |-> ProgressPOSTResponse(token, progress)]
  /\ lastResp' = Null
  /\ lastTrigger' = Null
  /\ lastGet' = Null
  /\ UNCHANGED << engineVars, mapping, mappingTtl, inflight, hookVars, reported >>

StorageGet(token, redisOk) ==
  /\ lastCall' = [op |-> "getProgress", key |-> token, redisOk |-> redisOk,
                  before |-> Stored,
                  returned |-> GetProgress(progressStore, token, redisOk)]
  /\ lastResp' = Null
  /\ lastTrigger' = Null
  /\ lastGet' = Null
  /\ UNCHANGED << engineVars, redisVars, hookVars, reported >>

StorageClear(token, redisOk) ==
  /\ progressStore' = ClearProgress(progressStore, token, redisOk)
  /\ progressTtl' = ClearProgressTtl(progressTtl, token, redisOk)
  /\ recorded' = IF redisOk THEN [recorded EXCEPT ![token] = << >>] ELSE recorded
  /\ lastCall' = [op |-> "clearProgress", key |-> token, redisOk |-> redisOk,
                  before |-> Stored, returned |-> Undefined]
  /\ lastResp' = Null
  /\ lastTrigger' = Null
  /\ lastGet' = Null
  /\ UNCHANGED << engineVars, mapping, mappingTtl, inflight, hookVars, reported >>

StorageGetCorrelationId(runId, redisOk) ==
  /\ lastCall' = [op |-> "getCorrelationId", key |-> runId, redisOk |-> redisOk,
                  before |-> Stored,
                  returned |-> GetCorrelationId(mapping, runId, redisOk)]
  /\ lastResp' = Null
  /\ lastTrigger' = Null
  /\ lastGet' = Null
  /\ UNCHANGED << engineVars, redisVars, hookVars, reported >>

NextStorage ==
  \/ \E t \in Tokens \cup {NoCorr}, e \in Entries \cup {Null}, redisOk \in BOOLEAN :
       StoragePost(t, e, redisOk)
  \/ \E t \in Tokens, redisOk \in BOOLEAN : StorageGet(t, redisOk)
  \/ \E t \in Tokens, redisOk \in BOOLEAN : StorageClear(t, redisOk)
  \/ \E r \in RunIds, redisOk \in BOOLEAN : StorageGetCorrelationId(r, redisOk)
  \/ \E e \in PageEmails, t \in PageReportTypes, c \in CorrIds : ClientTrigger(e, t, c)

SpecStorage == Init /\ [][NextStorage]_vars

\* The workflow with an unreliable side-channel: a progress write may not
\* reach the endpoint, the storage may fail, and the stored entries may be
\* cleared or run out at any moment.
NextChannel ==
  \/ Tick
  \/ \E e \in PageEmails, t \in PageReportTypes, c \in CorrIds : ClientTrigger(e, t, c)
  \/ \E r \in RunIds, outcome \in StepOutcomes, rnd \in RandomChoices : ExecStep(r, outcome, rnd)
  \/ \E r \in RunIds, delivered \in BOOLEAN, redisOk \in BOOLEAN :
        ExecStoreProgress(r, delivered, redisOk)
  \/ \E r \in RunIds : ExecSleep(r)
  \/ \E r \in RunIds : TimerFire(r)
  \/ \E r \in RunIds : ExecReturn(r)
  \/ \E t \in Tokens : CallClearProgress(t)
  \/ RedisElapse(PROGRESS_TTL)

SpecChannel == Init /\ [][NextChannel]_vars

\* The engine's workers.  A run that has something to do (a statement to
\* execute, or a sleep whose deadline has elapsed) is picked up by a worker,
\* which advances it and lets it go; a run a worker is advancing is not
\* picked up by another (the per-run lock), and a worker advances one run at
\* a time.
CanAdvance(r) ==
  \/ Live(r)
  \/ runs[r].status = "sleeping" /\ TimerDue(runs[r])

Idle(w) == \A r \in RunIds : w \notin advancing[r]

\* Acquire without the per-run lock.
AcquireNoLock(w, r) ==
  /\ CanAdvance(r)
  /\ Idle(w)
  /\ advancing' = [advancing EXCEPT ![r] = @ \cup {w}]
  /\ lastResp' = Null
  /\ lastTrigger' = Null
  /\ lastGet' = Null
  /\ lastCall' = Null
  /\ UNCHANGED << runs, redisVars, hookVars, reported >>

Acquire(w, r) ==
  /\ CanAdvance(r)
  /\ Idle(w)
  /\ advancing[r] = {}
  /\ advancing' = [advancing EXCEPT ![r] = @ \cup {w}]
  /\ lastResp' = Null
  /\ lastTrigger' = Null
  /\ lastGet' = Null
  /\ lastCall' = Null
  /\ UNCHANGED << runs, redisVars, hookVars, reported >>

WorkerAdvance(w, r) ==
  /\ w \in advancing[r]
  /\ \/ \E outcome \in StepOutcomes, rnd \in RandomChoices : ExecStep(r, outcome, rnd)
     \/ ExecStoreProgress(r, TRUE, TRUE)
     \/ ExecSleep(r)
     \/ TimerFire(r)
     \/ ExecReturn(r)

Release(w, r) ==
  /\ w \in advancing[r]
  /\ advancing' = [advancing EXCEPT ![r] = @ \ {w}]
  /\ lastResp' = Null
  /\ lastTrigger' = Null
  /\ lastGet' = Null
  /\ lastCall' = Null
  /\ UNCHANGED << runs, redisVars, hookVars, reported >>

NextResume ==
  \/ Tick
  \/ \E e \in PageEmails, t \in PageReportTypes, c \in CorrIds : ClientTrigger(e, t, c)
  \/ \E w \in Workers, r \in RunIds : Acquire(w, r)
  \/ \E w \in Workers, r \in RunIds : WorkerAdvance(w, r)
  \/ \E w \in Workers, r \in RunIds : Release(w, r)

SpecResume == Init /\ [][NextResume]_vars

\* setProgress in its two awaits, for calls that overlap: first
\* redis.get(key) || [], later existing.push(progress) and
\* redis.setex(key, PROGRESS_TTL, existing).  The storage works.
SetProgressRead(c, token, progress) ==
  /\ inflight[c] = Null
  /\ Len(recorded[token])
       + Cardinality({d \in CallIds : inflight[d] # Null /\ inflight[d].token = token})
       < MaxLen
  /\ inflight' = [inflight EXCEPT ![c] =
       [token |-> token, progress |-> progress,
        existing |-> GetProgress(progressStore, token, TRUE)]]
  /\ Quiet
  /\ UNCHANGED << engineVars, progressStore, mapping, progressTtl, mappingTtl,
                  recorded, hookVars >>

SetProgressWrite(c) ==
  /\ inflight[c] # Null
  /\ LET call == inflight[c]
     IN /\ progressStore' = [progressStore EXCEPT ![call.token] =
                               Push(call.existing, call.progress)]
        /\ progressTtl' = SetProgressTtl(progressTtl, call.token, TRUE)
        /\ recorded' = [recorded EXCEPT ![call.token] = Append(@, call.progress)]
  /\ inflight' = [inflight EXCEPT ![c] = Null]
  /\ Quiet
  /\ UNCHANGED << engineVars, mapping, mappingTtl, hookVars >>

NextRace ==
  \/ \E c \in CallIds, t \in Tokens, e \in Entries : SetProgressRead(c, t, e)
  \/ \E c \in CallIds : SetProgressWrite(c)
  \/ \E t \in Tokens : CallGetProgress(t)

SpecRace == Init /\ [][NextRace]_vars

\* The workflow run to its end.  The engine keeps advancing a run that can
\* advance and time keeps passing; the keys may or may not run out.  No
\* code calls clearProgress.
EngineNext ==
  \/ Tick
  \/ \E r \in RunIds, outcome \in StepOutcomes, rnd \in RandomChoices : ExecStep(r, outcome, rnd)
  \/ \E r \in RunIds : ExecStoreProgress(r, TRUE, TRUE)
  \/ \E r \in RunIds : ExecSleep(r)
  \/ \E r \in RunIds : TimerFire(r)
  \/ \E r \in RunIds : ExecReturn(r)

NextCleanup ==
  \/ EngineNext
  \/ \E e \in PageEmails, t \in PageReportTypes, c \in CorrIds : ClientTrigger(e, t, c)
  \/ RedisElapse(PROGRESS_TTL)

SpecCleanup == Init /\ [][NextCleanup]_vars /\ WF_vars(EngineNext)

\* ============================================================ claims ==
OkResp == lastResp # Null /\ lastResp.http = 200

\* C1: every response of GET /api/status that reports a run carries exactly
\* one of "Running", "Completed", "Failed": "Completed" exactly when the
\* engine status read is "completed", "Failed" exactly when it is "failed",
\* and "Running" for every other engine status.
C1_StatusMapping ==
  OkResp =>
    /\ lastResp.body.status \in {"Running", "Completed", "Failed"}
    /\ (lastResp.body.status = "Completed") <=> (lastResp.runStatus = "completed")
    /\ (lastResp.body.status = "Failed") <=> (lastResp.runStatus = "failed")
    /\ (lastResp.runStatus \notin {"completed", "failed"}) => lastResp.body.status = "Running"

C1_Witness ==
  /\ OkResp
  /\ lastResp.runStatus = "failed"
  /\ lastResp.body.status = "Failed"

\* C3: a status response carries a non-null output exactly when it reports
\* Completed, and then the output is the value generateReport returned for
\* that run; Running and Failed responses carry output null.
C3_OutputIffCompleted ==
  OkResp =>
    /\ (lastResp.body.output # Null) <=> (lastResp.body.status = "Completed")
    /\ (lastResp.body.status = "Completed") =>
         lastResp.body.output = ReturnValue(runs[lastResp.q].log)

C3_Witness ==
  /\ OkResp
  /\ lastResp.body.status = "Completed"
  /\ lastResp.body.output # Null
  /\ lastResp.body.output.summary.rating = "Excellent"

TerminalStatuses == {"Completed", "Failed"}

\* C2: once the status API has reported a run Completed or Failed, every
\* later report for that run id is the same status with the same output;
\* and once the hook shows Completed or Failed for its current run id, it
\* keeps showing that status and result while the run id stays.
C2_TerminalIrreversible ==
  [][ /\ \A r \in RunIds :
           (reported[r] # Null /\ reported[r].status \in TerminalStatuses)
             => reported'[r] = reported[r]
      /\ (currentRunId # NoRun /\ currentRunId' = currentRunId
          /\ HookStatus \in TerminalStatuses)
             => (HookStatus' = HookStatus /\ HookResult' = HookResult) ]_vars

C2_Witness ==
  /\ currentRunId # NoRun
  /\ HookStatus = "Completed"
  /\ startError # NoError
  /\ lastResp # Null
  /\ lastResp.by = "client"
  /\ lastResp.q = currentRunId
  /\ reported[currentRunId] # Null
  /\ reported[currentRunId].status = "Completed"

\* An event of one of the given types at a statement of the workflow.
HasEvent(log, types, site) ==
  \E k \in 1..Len(log) : log[k].type \in types /\ log[k].site = site

TimerPending(run) ==
  Len(SelectSeq(run.log, LAMBDA e : e.type = "TimerScheduled"))
    > Len(SelectSeq(run.log, LAMBDA e : e.type = "TimerFired"))

\* C4: a timer never fires early.  The 2s sleep has ended, and processData
\* has been invoked, only in a run at least 2 seconds old; the 3s sleep has
\* ended, and generateSummary has been invoked, only in a run at least 5
\* seconds old; the 1s sleep has ended, the run is completed and the API
\* has reported it Completed only in a run at least 6 seconds old.
C4_TimerNeverEarly ==
  \A r \in RunIds :
    Created(r) =>
      /\ HasEvent(runs[r].log, {"TimerFired"}, 4) => runs[r].age >= 2
      /\ HasEvent(runs[r].log, {"StepCompleted", "StepFailed"}, 6) => runs[r].age >= 2
      /\ HasEvent(runs[r].log, {"TimerFired"}, 8) => runs[r].age >= 5
      /\ HasEvent(runs[r].log, {"StepCompleted", "StepFailed"}, 10) => runs[r].age >= 5
      /\ HasEvent(runs[r].log, {"TimerFired"}, 12) => runs[r].age >= 6
      /\ runs[r].status = "completed" => runs[r].age >= 6
      /\ (reported[r] # Null /\ reported[r].status = "Completed") => runs[r].age >= 6

C4_Witness ==
  \E r \in RunIds :
    /\ runs[r].status = "completed"
    /\ runs[r].age = 6
    /\ reported[r] # Null
    /\ reported[r].status = "Completed"

\* C5 as claimed: a status query for a run suspended in a sleep reports
\* status Sleeping.
C5_SleepingReported ==
  (OkResp /\ lastResp.runStatus = "sleeping") => lastResp.body.status = "Sleeping"

\* C5 as amended: the API never reports Sleeping; a run suspended in a sleep
\* is reported Running from the moment the sleep is entered, and Completed
\* is reported only for a run with no timer pending and no sleep time left.
C5_SleepReportedRunning ==
  OkResp =>
    /\ lastResp.body.status # "Sleeping"
    /\ (lastResp.runStatus = "sleeping") => lastResp.body.status = "Running"
    /\ (lastResp.body.status = "Completed") =>
         (~TimerPending(runs[lastResp.q]) /\ runs[lastResp.q].wakeIn = 0)

C5_Witness ==
  /\ OkResp
  /\ lastResp.runStatus = "sleeping"
  /\ runs[lastResp.q].wakeIn = 3
  /\ lastResp.body.status = "Running"

\* The input of a triggerReport call satisfies ReportInputSchema: the email
\* is a well-formed address and the report type a string.
ValidCall(call) == call.email = "test@example.com" /\ call.reportType \in {"Sales", "Q1"}

\* C6: a triggerReport call whose input fails the schema returns an error
\* with runId null without invoking start, and creates no run and writes no
\* id mapping; a run is started only with the parsed input of a valid call;
\* and when the hook receives an error it records it and issues no call.
C6_ValidateBeforeStart ==
  /\ [](lastTrigger # Null =>
          /\ (~ValidCall(lastTrigger)) =>
                /\ lastTrigger.result.runId = NoRun
                /\ lastTrigger.result.error # NoError
                /\ ~lastTrigger.started
          /\ (lastTrigger.result.runId # NoRun) =>
                /\ ValidCall(lastTrigger)
                /\ runs[lastTrigger.result.runId].input =
                     [email |-> lastTrigger.email, reportType |-> lastTrigger.reportType,
                      runId |-> lastTrigger.corr])
  /\ [](\A r \in RunIds : Created(r) => ValidCall(runs[r].input))
  /\ [][ (lastTrigger' # Null /\ ~ValidCall(lastTrigger'))
            => (runs' = runs /\ mapping' = mapping) ]_vars
  /\ [][ (startError' # NoError /\ startError' # startError)
            => (runs' = runs /\ lastTrigger' = Null
                /\ Len(pendingStarts') < Len(pendingStarts)) ]_vars

C6_Witness ==
  /\ lastTrigger # Null
  /\ lastTrigger.email = "not-an-email"
  /\ lastTrigger.corr = "c1"
  /\ lastTrigger.result.error = "Invalid email"
  /\ \E r \in RunIds : Created(r) /\ mapping[r] = "c1"

\* C7 as claimed: every status query with an identifier the engine does not
\* know is answered 404.
C7_AlwaysNotFound ==
  (lastResp # Null /\ lastResp.q # NoRun
   /\ (lastResp.q \notin RunIds \/ runs[lastResp.q].status = "none"))
     => lastResp.http = 404

\* C7 as amended: a status query with an identifier the engine does not
\* know is answered 404 "Run not found" whenever the engine's lookup returns
\* (with no run), and 500 when the lookup throws; 404 is given for nothing
\* else, 400 exactly for a missing runId and 500 exactly when the engine
\* throws.
C7_UnknownRunNotFound ==
  lastResp # Null =>
    LET q == lastResp.q
        unknown == q \notin RunIds \/ runs[q].status = "none"
    IN /\ (q # NoRun /\ lastResp.engineOk /\ unknown) =>
            (lastResp.http = 404 /\ lastResp.body = [error |-> "Run not found"])
       /\ (lastResp.http = 404) => (q # NoRun /\ unknown)
       /\ (lastResp.http = 400) <=> (q = NoRun)
       /\ (lastResp.http = 500) <=> (q # NoRun /\ ~lastResp.engineOk)

C7_Witness ==
  /\ lastResp # Null
  /\ lastResp.q = UnknownId
  /\ lastResp.http = 404
  /\ \E r \in RunIds : Created(r)

\* C8 as claimed: the status response for a Failed run carries the run's
\* failure reason.
C8_FailureReasonExposed ==
  (OkResp /\ lastResp.body.status = "Failed") =>
    /\ "error" \in DOMAIN lastResp.body
    /\ lastResp.body.error = runs[lastResp.q].reason

C10_OrderedAppend ==
  /\ [](lastGet # Null => lastGet.result = recorded[lastGet.token])
  /\ [][ \A t \in Tokens :
           recorded'[t] = recorded[t] => progressStore'[t] = progressStore[t] ]_vars

C10_Witness ==
  /\ lastGet # Null
  /\ Len(lastGet.result) = 3
  /\ lastGet.result[1] # lastGet.result[2]
  /\ \E t \in Tokens : t # lastGet.token /\ progressStore[t] # << >>

IsPrefixOf(a, b) == Len(a) <= Len(b) /\ SubSeq(b, 1, Len(a)) = a

\* C11: a progress key and a mapping key never have more than 3600
\* seconds to live and hold nothing once their time has run out, so that
\* getProgress then returns the empty sequence; a stored sequence changes
\* only by a setProgress that extends it by one entry and leaves the key
\* 3600 seconds to live, or by going away as a whole; a mapping changes only
\* by mapIds, which leaves the key 3600 seconds to live, or by going away.
C11_OneHourLifetime ==
  /\ [](\A t \in Tokens : /\ progressTtl[t] \in 0..3600
                          /\ (progressTtl[t] = 0) => progressStore[t] = << >>)
  /\ [](\A r \in RunIds : /\ mappingTtl[r] \in 0..3600
                          /\ (mappingTtl[r] = 0) => mapping[r] = NoCorr)
  /\ [](lastGet # Null /\ progressTtl[lastGet.token] = 0 => lastGet.result = << >>)
  /\ [][ \A t \in Tokens :
           progressStore'[t] # progressStore[t] =>
             \/ /\ Len(progressStore'[t]) = Len(progressStore[t]) + 1
                /\ IsPrefixOf(progressStore[t], progressStore'[t])
                /\ progressTtl'[t] = 3600
             \/ /\ progressStore'[t] = << >>
                /\ progressTtl'[t] = 0 ]_vars
  /\ [][ \A r \in RunIds :
           mapping'[r] # mapping[r] =>
             \/ mapping'[r] # NoCorr /\ mappingTtl'[r] = 3600
             \/ mapping'[r] = NoCorr /\ mappingTtl'[r] = 0 ]_vars

C11_Witness ==
  /\ lastGet # Null
  /\ lastGet.result = << >>
  /\ progressTtl[lastGet.token] = 0
  /\ \E t \in Tokens : t # lastGet.token /\ Len(progressStore[t]) = 2 /\ progressTtl[t] = 1
  /\ \E r \in RunIds : Created(r) /\ mapping[r] = NoCorr

\* The progressUpdates generateReport returns for a run whose processData
\* reported n data points.
ExpectedUpdates(n) ==
  << [step |-> 1, totalSteps |-> 3, message |-> [text |-> "Initializing analysis...", n |-> 0]],
     [step |-> 1, totalSteps |-> 3, message |-> [text |-> "Analysis initialized", n |-> 0]],
     [step |-> 2, totalSteps |-> 3, message |-> [text |-> "Processing data...", n |-> 0]],
     [step |-> 2, totalSteps |-> 3, message |-> [text |-> "Processed data points", n |-> n]],
     [step |-> 3, totalSteps |-> 3, message |-> [text |-> "Generating summary...", n |-> 0]],
     [step |-> 3, totalSteps |-> 3, message |-> [text |-> "Summary generated", n |-> 0]] >>

\* The outcomes of the invocations of initAnalysis, processData and
\* generateSummary recorded in a log.
MainEvents(log) ==
  SelectSeq(log, LAMBDA e : e.type \in {"StepCompleted", "StepFailed"} /\ e.site \in {2, 6, 10})

\* C12: the terminal status and the output of a run are determined by its
\* input and the outcomes of initAnalysis, processData and generateSummary
\* alone, whatever happens to the side-channel: a run fails only at one of
\* these three steps, a progress-storing step always completes with no
\* result, and a completed run returns the three steps' results with all six
\* progress updates, whether or not they were stored.
C12_SideChannelIsolation ==
  \A r \in RunIds :
    LET run == runs[r]
        main == MainEvents(run.log)
    IN /\ \A k \in 1..Len(run.log) :
            (run.log[k].type \in {"StepCompleted", "StepFailed"}
             /\ run.log[k].site \in UpdateSites)
              => (run.log[k].type = "StepCompleted" /\ run.log[k].result = Null)
       /\ (run.status = "failed") =>
            (Len(main) > 0 /\ main[Len(main)].type = "StepFailed" /\ main[Len(main)].fatal)
       /\ (run.status = "completed") =>
            /\ \A k \in 1..Len(main) : main[k].type = "StepFailed" => ~main[k].fatal
            /\ run.output.metadata = [reportType |-> run.input.reportType,
                                      email |-> run.input.email]
            /\ run.output.processing = ResultOf(run.log, 6)
            /\ run.output.summary = ResultOf(run.log, 10)
            /\ run.output.progressUpdates = ExpectedUpdates(run.output.processing.dataPoints)

C12_Witness ==
  \E r \in RunIds :
    /\ runs[r].status = "completed"
    /\ Len(runs[r].output.progressUpdates) = 6
    /\ Len(recorded[runs[r].input.runId]) = 2
    /\ progressStore[runs[r].input.runId] # runs[r].output.progressUpdates
    /\ mapping[r] = NoCorr

\* C13 as claimed: once a run id is mapped to a correlation token, a status
\* query made with the run id returns the progress stored under the token.
C13_ResolvedByEitherKey ==
  (OkResp /\ lastResp.q \in RunIds /\ mapping[lastResp.q] # NoCorr
   /\ progressStore[mapping[lastResp.q]] # << >>)
    => lastResp.body.progressHistory = progressStore[mapping[lastResp.q]]

\* The entries stored for a run, under its run id or under the correlation
\* token mapped to it.
RealEntries(r) ==
  IF progressStore[r] # << >> THEN progressStore[r]
  ELSE IF mapping[r] # NoCorr THEN progressStore[mapping[r]]
  ELSE << >>

\* C14 as claimed: while a run is running and entries are stored for it,
\* the progress the status API returns is the latest stored entry, not the
\* elapsed-time estimate.
C14_RealProgressFirst ==
  (OkResp /\ lastResp.q \in RunIds /\ lastResp.runStatus = "running"
   /\ RealEntries(lastResp.q) # << >>)
    => lastResp.body.progress = RealEntries(lastResp.q)[Len(RealEntries(lastResp.q))]

\* The entries stored under the token a run records its progress under.
StoredFor(r) ==
  IF Created(r) /\ runs[r].input.runId \in Tokens
  THEN progressStore[runs[r].input.runId] ELSE << >>

\* C15 as claimed: the entries stored for a run that has completed are
\* eventually deleted.
C15_CleanedOnCompletion ==
  \A r \in RunIds :
    (runs[r].status = "completed" /\ StoredFor(r) # << >>) ~> (StoredFor(r) = << >>)

CallEvents == {"StepCompleted", "StepFailed", "TimerScheduled", "TimerFired"}

\* C16: in the log of a run, once the completion of a step is recorded no
\* later event invokes the step at that statement or at an earlier one, the
\* steps and timers are dispatched in the order of the workflow's statements,
\* each step and sleep is completed at most once, and a log only grows: what
\* is recorded is never rewritten, so the result stored for a step is the
\* one every later statement and the returned value use.
C16_DurableSteps ==
  /\ [](\A r \in RunIds :
          LET log == runs[r].log
          IN \A i, j \in 1..Len(log) :
               (i < j /\ log[i].type \in CallEvents /\ log[j].type \in CallEvents) =>
                 /\ log[i].site <= log[j].site
                 /\ (log[i].type = "StepCompleted" /\ log[j].type \in {"StepCompleted", "StepFailed"})
                      => log[i].site < log[j].site
                 /\ (log[i].type = "TimerFired") => log[i].site < log[j].site)
  /\ [](\A r \in RunIds :
          runs[r].status = "completed" =>
            /\ runs[r].output.metadata = ResultOf(runs[r].log, 2)
            /\ Len(SelectSeq(runs[r].log, LAMBDA e : e.type = "StepCompleted")) = 9)
  /\ [][ \A r \in RunIds :
           Created(r) => IsPrefixOf(runs[r].log, runs'[r].log) ]_vars

C16_Witness ==
  \E r \in RunIds :
    /\ runs[r].status = "completed"
    /\ Attempts(runs[r].log, 10) = 1
    /\ Attempts(runs[r].log, 6) = 1

StepSites == {i \in Sites : Program[i].kind = "step"}

Invocations(log, site) ==
  Len(SelectSeq(log, LAMBDA e : e.type \in {"StepCompleted", "StepFailed"} /\ e.site = site))

\* C17: no step is invoked more than MaxAttempts times.  An invocation that
\* raises an ordinary error fails the run exactly when it is the
\* MaxAttempts-th invocation of the step, all of which have failed; an
\* invocation that raises FatalError is the last of the run, which is
\* Failed at once, so that a step whose first invocation raises FatalError
\* is invoked once.  A failed run is not advanced any more.
C17_RetryBound ==
  /\ [](\A r \in RunIds :
          LET log == runs[r].log
          IN /\ \A site \in StepSites : Invocations(log, site) <= MaxAttempts
             /\ \A i \in 1..Len(log) :
                  log[i].type = "StepFailed" =>
                    LET last == (i = Len(log) - 1 /\ log[Len(log)].type = "RunFailed"
                                 /\ runs[r].status = "failed")
                    IN /\ log[i].attempt = Invocations(SubSeq(log, 1, i), log[i].site)
                       /\ (log[i].error = "FatalError") => last
                       /\ (log[i].error = "Error") => (last <=> log[i].attempt = MaxAttempts)
             /\ (runs[r].status = "failed") =>
                  (Len(log) >= 2 /\ log[Len(log) - 1].type = "StepFailed"))
  /\ [][ \A r \in RunIds :
           runs[r].status = "failed" =>
             (runs'[r].status = "failed" /\ runs'[r].log = runs[r].log
              /\ runs'[r].reason = runs[r].reason) ]_vars

C17_Witness ==
  \E r \in RunIds :
    /\ runs[r].status = "failed"
    /\ runs[r].reason = "RetriesExhausted"
    /\ Invocations(runs[r].log, 6) = MaxAttempts
    /\ Invocations(runs[r].log, 2) = 1

\* The order in which generateReport has its steps and sleeps done.
ExpectedOrder ==
  << [call |-> "initAnalysis", seconds |-> 0],
     [call |-> "sleep", seconds |-> 2],
     [call |-> "processData", seconds |-> 0],
     [call |-> "sleep", seconds |-> 3],
     [call |-> "generateSummary", seconds |-> 0],
     [call |-> "sleep", seconds |-> 1] >>

\* The steps and sleeps a log records as finished, in the order recorded.
RECURSIVE FinishedCalls(_)
FinishedCalls(log) ==
  IF log = << >> THEN << >>
  ELSE LET e == log[Len(log)]
           before == FinishedCalls(SubSeq(log, 1, Len(log) - 1))
       IN IF e.type = "StepCompleted" /\ e.site \in StepSites
          THEN Append(before, [call |-> Program[e.site].name, seconds |-> 0])
          ELSE IF e.type = "TimerFired"
          THEN Append(before, [call |-> "sleep", seconds |-> Program[e.site].seconds])
          ELSE before

\* The number of steps and sleeps that come before a step in ExpectedOrder.
CallsBefore(name) ==
  CASE name = "initAnalysis" -> 0
    [] name = "processData" -> 2
    [] name = "generateSummary" -> 4

\* C19: the steps and sleeps a run has finished are always an initial part
\* of initAnalysis, sleep 2, processData, sleep 3, generateSummary, sleep 1;
\* a step is invoked, and a sleep is entered, only when everything before it
\* in that order has finished; a run is completed only when all six have;
\* processData's result is computed from initAnalysis's and generateSummary's
\* from processData's; and the returned metadata, processing and summary
\* are the three results.
C19_FixedOrder ==
  \A r \in RunIds :
    LET log == runs[r].log
    IN /\ IsPrefixOf(FinishedCalls(log), ExpectedOrder)
       /\ \A i \in 1..Len(log) :
            LET before == FinishedCalls(SubSeq(log, 1, i - 1))
            IN /\ (log[i].type \in {"StepCompleted", "StepFailed"} /\ log[i].site \in StepSites)
                    => Len(before) = CallsBefore(Program[log[i].site].name)
               /\ (log[i].type = "TimerScheduled")
                    => /\ Len(before) \in {1, 3, 5}
                       /\ ExpectedOrder[Len(before) + 1] =
                            [call |-> "sleep", seconds |-> Program[log[i].site].seconds]
               /\ (log[i].type = "RunCompleted") => before = ExpectedOrder
       /\ (Invocations(log, 2) > 0 /\ HasEvent(log, {"StepCompleted"}, 2))
            => ResultOf(log, 2) = [reportType |-> runs[r].input.reportType,
                                   email |-> runs[r].input.email]
       /\ HasEvent(log, {"StepCompleted"}, 6)
            => /\ ResultOf(log, 6).score =
                    Min(100, 85 + (Len(ResultOf(log, 2).reportType) % 15))
               /\ ResultOf(log, 6).dataPoints \in 500..1499
       /\ HasEvent(log, {"StepCompleted"}, 10)
            => /\ ResultOf(log, 10).score = ResultOf(log, 6).score
               /\ ResultOf(log, 10).dataPoints = ResultOf(log, 6).dataPoints
               /\ ResultOf(log, 10).rating =
                    IF ResultOf(log, 6).score >= 90 THEN "Excellent"
                    ELSE IF ResultOf(log, 6).score >= 75 THEN "Good" ELSE "Fair"
       /\ (runs[r].status = "completed")
            => /\ runs[r].output.metadata = ResultOf(log, 2)
               /\ runs[r].output.processing = ResultOf(log, 6)
               /\ runs[r].output.summary = ResultOf(log, 10)

C19_Witness ==
  \E r \in RunIds :
    /\ runs[r].status = "completed"
    /\ FinishedCalls(runs[r].log) = ExpectedOrder
    /\ runs[r].output.processing = [score |-> 87, dataPoints |-> 1499]
    /\ runs[r].output.summary.rating = "Good"

\* C20 as claimed: every entry passed to a setProgress call that has
\* completed is in the sequence a later getProgress of the token returns,
\* however the calls interleave.
C20_NoLostEntry ==
  lastGet # Null =>
    \A k \in 1..Len(recorded[lastGet.token]) :
      \E j \in 1..Len(lastGet.result) :
        lastGet.result[j] = recorded[lastGet.token][k]

C21_FailuresContained ==
  (lastCall # Null /\ ~lastCall.redisOk) =>
    /\ Stored = lastCall.before
    /\ lastCall.op = "getProgress" => lastCall.returned = << >>
    /\ lastCall.op = "getCorrelationId" => lastCall.returned = NoCorr
    /\ (lastCall.op = "POST" /\ lastCall.key # NoCorr /\ lastCall.progress # Null) =>
         lastCall.returned = [http |-> 200, body |-> [success |-> TRUE]]
    /\ lastCall.op = "mapIds" =>
         /\ lastCall.returned.runId = lastCall.key
         /\ lastCall.returned.error = NoError
         /\ Created(lastCall.key)

C21_Witness ==
  /\ lastCall # Null
  /\ lastCall.op = "POST"
  /\ ~lastCall.redisOk
  /\ lastCall.returned.http = 200
  /\ Len(progressStore[lastCall.key]) = 2
  /\ \E r \in RunIds : Created(r) /\ mapping[r] = NoCorr

\* C22: clearProgress(token) removes the token's sequence and nothing else:
\* getProgress(token) then gives the empty sequence, the sequences of the
\* other tokens and the id mappings are as they were, and a setProgress of
\* the token that follows leaves exactly the one entry it was given; in
\* general a token's sequence is what was stored since its last clear.
C22_ClearFrame ==
  /\ []((lastCall # Null /\ lastCall.op = "clearProgress" /\ lastCall.redisOk) =>
          /\ GetProgress(progressStore, lastCall.key, TRUE) = << >>
          /\ progressStore = [lastCall.before.progress EXCEPT ![lastCall.key] = << >>]
          /\ \A t \in Tokens \ {lastCall.key} :
               progressTtl[t] = lastCall.before.progressTtl[t]
          /\ mapping = lastCall.before.mapping
          /\ mappingTtl = lastCall.before.mappingTtl)
  /\ [][ ( /\ lastCall # Null /\ lastCall.op = "clearProgress" /\ lastCall.redisOk
           /\ lastCall' # Null /\ lastCall'.op = "POST" /\ lastCall'.redisOk
           /\ lastCall'.key = lastCall.key /\ lastCall'.progress # Null ) =>
         progressStore'[lastCall.key] = << lastCall'.progress >> ]_vars
  /\ [](\A t \in Tokens : progressStore[t] = recorded[t])

C22_Witness ==
  /\ lastCall # Null
  /\ lastCall.op = "clearProgress"
  /\ lastCall.redisOk
  /\ Len(lastCall.before.progress[lastCall.key]) = 2
  /\ \E t \in Tokens \ {lastCall.key} : Len(progressStore[t]) = 2
  /\ \E r \in RunIds : mapping[r] # NoCorr

C25_StatusFunction ==
  /\ (HookStatus = "Idle") <=> (currentRunId = NoRun)
  /\ (currentRunId # NoRun /\ data = Null) => HookStatus = "Running"
  /\ data # Null =>
       /\ currentRunId # NoRun
       /\ HookStatus = data.status
       /\ reported[currentRunId] # Null
       /\ HookStatus \in {"Running", "Completed", "Failed"}
  /\ IsRunning <=> (HookStatus = "Running")
  /\ FormDisabled <=> IsRunning

C25_Witness ==
  /\ currentRunId # NoRun
  /\ data = Null
  /\ fetched
  /\ swrError # NoError
  /\ HookStatus = "Running"
  /\ FormDisabled

\* C26: the hook's run id changes only to the run id a call of triggerReport
\* has returned; a start that fails (triggerReport returns an error, or the
\* call throws) sets the start error to the message, which is then the hook's
\* error, and leaves the run id, the fetched data, the status, the result
\* and the polling as they were; every call of start clears the start error.
C26_FailedStartFrame ==
  /\ [][ currentRunId' # currentRunId =>
           /\ pendingStarts # << >>
           /\ pendingStarts' = Tail(pendingStarts)
           /\ Head(pendingStarts).error = NoError
           /\ Head(pendingStarts).runId # NoRun
           /\ currentRunId' = Head(pendingStarts).runId ]_vars
  /\ [][ ( /\ pendingStarts # << >>
           /\ pendingStarts' = Tail(pendingStarts)
           /\ (Head(pendingStarts).error # NoError \/ currentRunId' = currentRunId) ) =>
           /\ startError' \in {Head(pendingStarts).error, "Failed to start workflow"}
           /\ startError' # NoError
           /\ HookError' = startError'
           /\ UNCHANGED << currentRunId, data, swrError, fetched, sinceFetch >>
           /\ HookStatus' = HookStatus
           /\ HookResult' = HookResult
           /\ PollDue' = PollDue ]_vars
  /\ [][ Len(pendingStarts') > Len(pendingStarts) => startError' = NoError ]_vars

C26_Witness ==
  /\ startError # NoError
  /\ pendingStarts = << >>
  /\ currentRunId # NoRun
  /\ DataStatus(data) = "Running"
  /\ PollDue

Settled(r) ==
  /\ currentRunId = r
  /\ Terminal(r)
  /\ HookStatus = (IF runs[r].status = "completed" THEN "Completed" ELSE "Failed")
  /\ HookStatus = "Completed" => (HookResult # Null /\ HookResult = runs[r].output)
  /\ ~IsRunning
  /\ ~PollDue

\* C23: once the hook holds the run id triggerReport returned, and the
\* engine brings the run to its end and status requests succeed in the end,
\* the hook comes to report Completed with the run's output as result, or
\* Failed; from then on, as long as it holds that run id, the status and the
\* result stay, isRunning is false and no status request comes due.
C23_EventualOutcome ==
  /\ \A r \in RunIds : (currentRunId = r) ~> (Settled(r) \/ currentRunId # r)
  /\ [][ \A r \in RunIds : (Settled(r) /\ currentRunId' = r) => Settled(r)' ]_vars

C23_Witness ==
  \E r \in RunIds :
    /\ Settled(r)
    /\ HookStatus = "Completed"
    /\ sinceFetch = 1
    /\ runs[r].age = MaxAge

=============================================================================
